---- MODULE Spec2Model ----
(***************************************************************************)
(* RBAC permission resolution engine of xdd-zone/core: the permission      *)
(* grammar, the role hierarchy store, the association stores, the          *)
(* permission context resolver, the in-memory permission cache and the     *)
(* authorization gate.                                                     *)
(*                                                                         *)
(* A permission string is modelled as the sequence of its ':'-separated    *)
(* segments ("user:read:own" is <<"user", "read", "own">>), which is what  *)
(* String.split(':') yields.  Role ids are generated by the database; the  *)
(* model identifies a role's id with its unique name.                      *)
(***************************************************************************)
EXTENDS Integers, Sequences, FiniteSets, TLC

\* ---------------------------------------------------------------- bounds
\* roles and users of the hierarchy and resolver specifications
MaxRoles == 3
MaxUsers == 2
\* roles and users of the cache specifications
MaxCacheRoles == 2
MaxCacheUsers == 1
\* caps on what the service calls may build up
MaxLevel == 2
MaxRolePermissionRows == 2
MaxUserRoleRows == 2
MaxTicks == 1
MaxInFlight == 1
\* Permission rows the role-permission calls choose from
MaxPermissions == 2
\* users that register
MaxSignups == 3
\* setRoleParent calls in progress at once
MaxReparents == 2
\* role names free on the seeded store
MaxSeededNames == 2
\* entries of a permissionIds argument
MaxListed == 2

RoleIds == 1..MaxRoles
UserIds == 1..MaxUsers
CacheRoleIds == 1..MaxCacheRoles
CacheUserIds == 1..MaxCacheUsers
CallIds == 1..MaxInFlight

\* parentId: string | null | undefined
NULL == 0
UNDEFINED == 0 - 1

CACHE_TTL == 5 * 60 * 1000

\* ---------------------------------------------------- permission grammar
\* rows of the Permission table: (resource, action, scope), scope '' = none
PermissionTable ==
  << [resource |-> "user", action |-> "read", scope |-> "all"],
     [resource |-> "role", action |-> "delete", scope |-> ""],
     [resource |-> "user_role", action |-> "create", scope |-> "all"] >>

\* the ids of Permission rows the service calls are given
PermissionIds == {p \in DOMAIN PermissionTable : p <= MaxPermissions}

\* scope ? `${resource}:${action}:${scope}` : `${resource}:${action}`
buildPermission(resource, action, scope) ==
  IF scope # "" THEN <<resource, action, scope>> ELSE <<resource, action>>

\* a string is returned as it is
normalizePermission(permission) == permission

\* a matcher that knows no wildcard segment and compares the two strings
MatchWholeString(permission, pattern, i) == permission = pattern

\* the loop of matchPermission from index i (1-based) on
RECURSIVE MatchFrom(_, _, _)
MatchFrom(permission, pattern, i) ==
  IF i > Len(pattern) THEN TRUE
  ELSE IF pattern[i] = "*" THEN MatchFrom(permission, pattern, i + 1)
  ELSE IF i > Len(permission) \/ pattern[i] # permission[i] THEN FALSE
  ELSE MatchFrom(permission, pattern, i + 1)

matchPermission(permission, pattern) ==
  IF pattern = <<"*">> THEN TRUE ELSE MatchFrom(permission, pattern, 1)

\* PermissionService.hasPermission once the context is resolved
hasPermissionIn(permissions, permission) ==
  IF <<"*">> \in permissions THEN TRUE
  ELSE \E perm \in permissions :
         matchPermission(normalizePermission(permission), perm)

\* ------------------------------------------------------------------ state
VARIABLES
  role,             \* prisma.role: id -> [parentId, level, isSystem]
  rolePermission,   \* prisma.rolePermission rows: <<roleId, permissionId>>
  userRole,         \* prisma.userRole rows: <<userId, roleId>>
  permissionCache,  \* Map userId -> [context, expiresAt]
  now,              \* Date.now()
  last,             \* the last service call and how it ended
  pending,          \* getPermissionContext calls waiting for their load
  fresh,            \* users invalidated by the last change of the store
  gate,             \* a route guard: its context, its arguments, its outcome
  tx,               \* the open transaction of replacePermissions
  reparent,         \* setRoleParent calls between their checks and their write
  signup,           \* prisma.user, the users ever created, hooks still to run
  walk              \* a loadPermissionContext call between its queries

vars ==
  <<role, rolePermission, userRole, permissionCache, now, last, pending, fresh, gate,
    tx, reparent, signup, walk>>

store == <<role, rolePermission, userRole>>

\* res: "ok", or the error thrown: NotFound and Forbidden are NotFoundError and
\* ForbiddenError; NameExists, SelfParent and CycleDetected are the three
\* BadRequestError messages; StoreError is an error of the database client
Call(op, res) == [op |-> op, res |-> res]

\* a call that throws before it writes anything
Throws(op, res) ==
  /\ last' = Call(op, res)
  /\ UNCHANGED <<role, rolePermission, userRole, permissionCache, now>>

\* ------------------------------------------------------ role hierarchy store
\* the foreign key of Role.parentId: a write naming a missing parent fails
ParentKeyHolds(parentId) == parentId = NULL \/ parentId \in DOMAIN role

\* level of a role written with this parent (RoleRepository.create / update)
LevelUnder(parentId) ==
  IF parentId # NULL /\ parentId \in DOMAIN role
    THEN role[parentId].level + 1
    ELSE 0

\* RoleRepository.update(id, {parentId})
RoleRepositoryUpdate(id, parentId) ==
  [role EXCEPT ![id].parentId = parentId, ![id].level = LevelUnder(parentId)]

\* RoleRepository.create({name, parentId, isSystem: false})
RoleRepositoryCreate(id, parentId) ==
  [r \in DOMAIN role \cup {id} |->
     IF r = id
       THEN [parentId |-> parentId, level |-> LevelUnder(parentId), isSystem |-> FALSE]
       ELSE role[r]]

\* the loop of validateRoleHierarchy: TRUE when a cycle is detected
RECURSIVE HierarchyWalk(_, _, _)
HierarchyWalk(currentId, childId, visited) ==
  IF currentId = NULL THEN FALSE
  ELSE IF currentId = childId THEN TRUE
  ELSE IF currentId \in visited THEN TRUE
  ELSE IF currentId \notin DOMAIN role THEN FALSE
  ELSE IF role[currentId].parentId = NULL THEN FALSE
  ELSE HierarchyWalk(role[currentId].parentId, childId, visited \cup {currentId})

\* a check that looks at the new parent alone and never walks its chain
validateParentOnly(parentId, childId) == parentId = childId

validateRoleHierarchy(parentId, childId) == HierarchyWalk(parentId, childId, {})

createRole(name, parentId) ==
     IF name \in DOMAIN role
       THEN Throws("createRole", "NameExists")
     ELSE IF ~ParentKeyHolds(parentId)
       THEN Throws("createRole", "StoreError")
     ELSE /\ role' = RoleRepositoryCreate(name, parentId)
          /\ last' = Call("createRole", "ok")
          /\ UNCHANGED <<rolePermission, userRole, permissionCache, now>>

\* checks of setRoleParent that let a system role through
setRoleParentRefusalAnyRole(roleId, parentId) ==
     IF parentId = roleId THEN "SelfParent"
     ELSE IF roleId \notin DOMAIN role THEN "NotFound"
     ELSE IF parentId # NULL /\ validateRoleHierarchy(parentId, roleId) THEN "CycleDetected"
     ELSE IF parentId # NULL /\ parentId \notin DOMAIN role THEN "NotFound"
     ELSE "none"

\* the error the checks of setRoleParent end in, "none" when they all pass
setRoleParentRefusal(roleId, parentId) ==
     IF parentId = roleId THEN "SelfParent"
     ELSE IF roleId \notin DOMAIN role THEN "NotFound"
     ELSE IF role[roleId].isSystem THEN "Forbidden"
     ELSE IF parentId # NULL /\ validateRoleHierarchy(parentId, roleId) THEN "CycleDetected"
     ELSE IF parentId # NULL /\ parentId \notin DOMAIN role THEN "NotFound"
     ELSE "none"

setRoleParent(roleId, parentId) ==
     IF setRoleParentRefusal(roleId, parentId) # "none"
       THEN Throws("setRoleParent", setRoleParentRefusal(roleId, parentId))
     ELSE /\ role' = RoleRepositoryUpdate(roleId, parentId)
          /\ last' = Call("setRoleParent", "ok")
          /\ UNCHANGED <<rolePermission, userRole, permissionCache, now>>

\* setRoleParent up to its last await: the checks have read the store
setRoleParentBegin(callId, roleId, parentId) ==
  /\ callId \notin DOMAIN reparent
  /\ IF setRoleParentRefusal(roleId, parentId) # "none"
       THEN /\ last' = Call("setRoleParent", setRoleParentRefusal(roleId, parentId))
            /\ UNCHANGED reparent
       ELSE /\ reparent' = [c \in DOMAIN reparent \cup {callId} |->
                              IF c = callId
                                THEN [roleId |-> roleId, parentId |-> parentId]
                                ELSE reparent[c]]
            /\ last' = Call("setRoleParent", "checked")
  /\ UNCHANGED <<role, rolePermission, userRole, permissionCache, now>>

\* setRoleParent from RoleRepository.update on: the parent is written, whatever
\* other calls wrote since the checks
setRoleParentEnd(callId) ==
  /\ callId \in DOMAIN reparent
  /\ role' = RoleRepositoryUpdate(reparent[callId].roleId, reparent[callId].parentId)
  /\ reparent' = [c \in DOMAIN reparent \ {callId} |-> reparent[c]]
  /\ last' = Call("setRoleParent", "ok")
  /\ UNCHANGED <<rolePermission, userRole, permissionCache, now>>

\* data.parentId is UNDEFINED when the body carries no parentId
\* the error updateRole(id, {parentId}) ends in, "none" when it updates
updateRoleRefusal(id, parentId) ==
     IF id \notin DOMAIN role THEN "NotFound"
     ELSE IF role[id].isSystem /\ parentId # UNDEFINED /\ parentId # role[id].parentId
       THEN "Forbidden"
     ELSE IF parentId # UNDEFINED /\ parentId = id THEN "SelfParent"
     ELSE IF parentId # UNDEFINED /\ parentId # NULL /\ validateRoleHierarchy(parentId, id)
       THEN "CycleDetected"
     ELSE IF parentId # UNDEFINED /\ ~ParentKeyHolds(parentId) THEN "StoreError"
     ELSE "none"

updateRole(id, parentId) ==
     IF updateRoleRefusal(id, parentId) # "none"
       THEN Throws("updateRole", updateRoleRefusal(id, parentId))
     ELSE /\ role' = IF parentId = UNDEFINED THEN role ELSE RoleRepositoryUpdate(id, parentId)
          /\ last' = Call("updateRole", "ok")
          /\ UNCHANGED <<rolePermission, userRole, permissionCache, now>>

\* what the database does to the rows that reference a deleted role row: the
\* RolePermission and UserRole rows of the role are removed with it; a child
\* role either blocks the delete, loses its parent or is removed as well
ReferentialActions == {"Restrict", "SetNull", "Cascade"}

RECURSIVE Descendants(_, _)
\* ids whose parent chain reaches a member of ids, found in at most n rounds
Descendants(ids, n) ==
  LET more == ids \cup {r \in DOMAIN role : role[r].parentId \in ids}
  IN IF n = 0 \/ more = ids THEN ids ELSE Descendants(more, n - 1)

\* the role rows gone after prisma.role.delete({where: {id}})
DeletedWith(id, onDelete) ==
  IF onDelete = "Cascade" THEN Descendants({id}, Cardinality(DOMAIN role)) ELSE {id}

RoleRepositoryDelete(id, onDelete) ==
  LET gone == DeletedWith(id, onDelete)
  IN [r \in DOMAIN role \ gone |->
        IF role[r].parentId \in gone
          THEN [role[r] EXCEPT !.parentId = NULL]
          ELSE role[r]]

deleteRole(id, onDelete) ==
  IF id \notin DOMAIN role
    THEN Throws("deleteRole", "NotFound")
  ELSE IF role[id].isSystem
    THEN Throws("deleteRole", "Forbidden")
  ELSE IF onDelete = "Restrict" /\ \E r \in DOMAIN role : role[r].parentId = id
    THEN Throws("deleteRole", "StoreError")
  ELSE /\ role' = RoleRepositoryDelete(id, onDelete)
       /\ rolePermission' = {rp \in rolePermission : rp[1] \in DOMAIN role'}
       /\ userRole' = {ur \in userRole : ur[2] \in DOMAIN role'}
       /\ last' = Call("deleteRole", "ok")
       /\ UNCHANGED <<permissionCache, now>>

\* ------------------------------------------------------- permission cache
\* PermissionService.clearCache: permissionCache.delete(userId)
clearCache(cache, userId) ==
  [u \in DOMAIN cache \ {userId} |-> cache[u]]

\* an invalidation that stops after the first user of the list
clearCacheOfFirstUser(cache, users) ==
  IF users = {} THEN cache ELSE clearCache(cache, CHOOSE u \in users : TRUE)

\* users.forEach((user) => PermissionService.clearCache(user.id))
clearCacheOfUsers(cache, users) ==
  [u \in DOMAIN cache \ users |-> cache[u]]

\* UserRoleRepository.findUsersByRole
findUsersByRole(roleId) == {ur[1] : ur \in {x \in userRole : x[2] = roleId}}

\* ----------------------------------------------------- association stores
\* the permissionIds: string[] argument of the role-permission calls
PermissionLists == UNION {[1..n -> PermissionIds] : n \in 0..MaxListed}

\* permissionIds.map((permissionId) => ({roleId, permissionId}))
RowsOf(roleId, permissionIds) ==
  [i \in DOMAIN permissionIds |-> <<roleId, permissionIds[i]>>]

\* some row of data is stored already or listed twice: it collides with the
\* compound key roleId_permissionId
KeyConflict(stored, data) ==
  \E i \in DOMAIN data :
    \/ data[i] \in stored
    \/ \E j \in DOMAIN data : j # i /\ data[j] = data[i]

\* every row of data names a stored permission: the foreign key of
\* RolePermission.permissionId holds
PermissionKeyHolds(data) ==
  \A i \in DOMAIN data : data[i][2] \in DOMAIN PermissionTable

\* an id that names no stored permission
MissingPermissionId == Len(PermissionTable) + 1

\* the permissionIds argument when a caller may also name a missing permission
ReplaceLists ==
  UNION {[1..n -> PermissionIds \cup {MissingPermissionId}] : n \in 0..MaxListed}

\* a createMany that raises on every key conflict, whatever its options say
createManyStrict(stored, data, skipDuplicates) == KeyConflict(stored, data)

\* prisma.rolePermission.createMany({data, skipDuplicates}) raises
createManyThrows(stored, data, skipDuplicates) ==
  \/ ~skipDuplicates /\ KeyConflict(stored, data)
  \/ ~PermissionKeyHolds(data)

\* the table after a createMany that did not raise
createMany(stored, data) == stored \cup {data[i] : i \in DOMAIN data}

\* RolePermissionRepository.batchAssign: nothing is sent for an empty list
assignPermissionsToRole(roleId, permissionIds) ==
  LET data == RowsOf(roleId, permissionIds)
      rows == IF Len(permissionIds) = 0 THEN rolePermission
              ELSE createMany(rolePermission, data)
  IN    IF roleId \notin DOMAIN role
          THEN Throws("assignPermissionsToRole", "NotFound")
        ELSE IF Len(permissionIds) # 0 /\ createManyThrows(rolePermission, data, TRUE)
          THEN Throws("assignPermissionsToRole", "StoreError")
          ELSE /\ rolePermission' = rows
               /\ permissionCache' = clearCacheOfUsers(permissionCache, findUsersByRole(roleId))
               /\ last' = Call("assignPermissionsToRole", "ok")
               /\ UNCHANGED <<role, userRole, now>>

removePermissionFromRole(roleId, permissionId) ==
  IF roleId \notin DOMAIN role
    THEN Throws("removePermissionFromRole", "NotFound")
    ELSE /\ rolePermission' = rolePermission \ {<<roleId, permissionId>>}
         /\ permissionCache' = clearCacheOfUsers(permissionCache, findUsersByRole(roleId))
         /\ last' = Call("removePermissionFromRole", "ok")
         /\ UNCHANGED <<role, userRole, now>>

\* RolePermissionRepository.replacePermissions: deleteMany, then createMany
\* with Prisma's default skipDuplicates (false), in one transaction that is
\* rolled back when createMany raises
replaceRolePermissions(roleId, permissionIds) ==
  LET data == RowsOf(roleId, permissionIds)
      kept == {rp \in rolePermission : rp[1] # roleId}
  IN    IF roleId \notin DOMAIN role
          THEN Throws("replaceRolePermissions", "NotFound")
        ELSE IF Len(permissionIds) > 0 /\ createManyThrows(kept, data, FALSE)
          THEN Throws("replaceRolePermissions", "StoreError")
          ELSE /\ rolePermission' = IF Len(permissionIds) > 0 THEN createMany(kept, data)
                                     ELSE kept
               /\ permissionCache' = clearCacheOfUsers(permissionCache, findUsersByRole(roleId))
               /\ last' = Call("replaceRolePermissions", "ok")
               /\ UNCHANGED <<role, userRole, now>>

\* prisma.userRole.create on a pair that is already stored either violates the
\* unique key of the pair (unique = TRUE) or stores a second, equal row
assignRoleToUser(userId, roleId, unique) ==
     IF roleId \notin DOMAIN role
       THEN Throws("assignRoleToUser", "NotFound")
     ELSE IF unique /\ <<userId, roleId>> \in userRole
       THEN Throws("assignRoleToUser", "StoreError")
     ELSE /\ userRole' = userRole \cup {<<userId, roleId>>}
          /\ permissionCache' = clearCache(permissionCache, userId)
          /\ last' = Call("assignRoleToUser", "ok")
          /\ UNCHANGED <<role, rolePermission, now>>

removeRoleFromUser(userId, roleId) ==
  /\ userRole' = userRole \ {<<userId, roleId>>}
  /\ permissionCache' = clearCache(permissionCache, userId)
  /\ last' = Call("removeRoleFromUser", "ok")
  /\ UNCHANGED <<role, rolePermission, now>>

\* ------------------------------------------------ permission context resolver
\* a resolver that reads the parent included with the held role and stops there
ParentOnlyWalk(parentId, roleIds, steps) ==
  [roleIds |-> roleIds \cup ({parentId} \ {NULL}), returns |-> TRUE]

\* a walk that collects the parent of the role and the children of the role
ParentAndChildrenWalk(parentId, roleIds, steps) ==
  [roleIds |-> roleIds \cup ({parentId} \ {NULL})
                 \cup {r \in DOMAIN role : role[r].parentId \in roleIds},
   returns |-> TRUE]

\* the while loop of loadPermissionContext: roleIds collected from a role whose
\* parentId is parentId; steps counts the iterations left before the loop has
\* run longer than any acyclic chain of the store (it then never returns)
RECURSIVE AncestorWalk(_, _, _)
AncestorWalk(parentId, roleIds, steps) ==
  IF parentId = NULL THEN [roleIds |-> roleIds, returns |-> TRUE]
  ELSE IF steps = 0 THEN [roleIds |-> roleIds, returns |-> FALSE]
  ELSE IF parentId \notin DOMAIN role
    THEN [roleIds |-> roleIds \cup {parentId}, returns |-> TRUE]
  ELSE AncestorWalk(role[parentId].parentId, roleIds \cup {parentId}, steps - 1)

\* the roles of the rows prisma.userRole.findMany({where: {userId}}) returns
HeldRoles(userId) == {ur[2] : ur \in {x \in userRole : x[1] = userId}}

WalkFrom(roleId) ==
  AncestorWalk(role[roleId].parentId, {roleId}, Cardinality(DOMAIN role) + 1)

\* the permission string of a Permission row
PermissionStringOf(permissionId) ==
  LET row == PermissionTable[permissionId]
  IN buildPermission(row.resource, row.action, row.scope)

\* rolePermission.findMany({where: {roleId: {in: roleIds}}}) as strings
PermissionsOfRoles(roleIds) ==
  {PermissionStringOf(rp[2]) : rp \in {x \in rolePermission : x[1] \in roleIds}}

EmptyContext == [permissions |-> {}, roles |-> {}]

\* returns = FALSE: the call never returns
loadPermissionContext(userId) ==
  LET held == HeldRoles(userId)
  IN IF held = {} THEN [context |-> EmptyContext, returns |-> TRUE]
     ELSE [context |->
             [permissions |-> PermissionsOfRoles(UNION {WalkFrom(r).roleIds : r \in held}),
              roles |-> held],
           returns |-> \A r \in held : WalkFrom(r).returns]

CacheHit(userId) ==
  userId \in DOMAIN permissionCache /\ permissionCache[userId].expiresAt > now

\* the context getPermissionContext returns when all of it runs at once
ContextServed(userId) ==
  IF CacheHit(userId)
    THEN permissionCache[userId].context
    ELSE loadPermissionContext(userId).context

\* permissionCache.set(userId, {context, expiresAt: Date.now() + CACHE_TTL})
CacheSet(cache, userId, context) ==
  [u \in DOMAIN cache \cup {userId} |->
     IF u = userId
       THEN [context |-> context, expiresAt |-> now + CACHE_TTL]
       ELSE cache[u]]

\* the cache after getPermissionContext(userId) has run
CacheAfterGet(userId) ==
  IF CacheHit(userId)
    THEN permissionCache
    ELSE CacheSet(permissionCache, userId, loadPermissionContext(userId).context)

\* ------------------------------------------------------ authorization gate
\* the permissions route guards ask for
Requests ==
  << <<"user", "read", "all">>, <<"user", "read", "own">>, <<"role", "delete">> >>

Truth(b) == IF b THEN "true" ELSE "false"

hasPermission(userId, request) ==
  /\ CacheHit(userId) \/ loadPermissionContext(userId).returns
  /\ permissionCache' = CacheAfterGet(userId)
  /\ last' = Call("hasPermission",
                  Truth(hasPermissionIn(ContextServed(userId).permissions, Requests[request])))
  /\ UNCHANGED <<role, rolePermission, userRole, now>>

\* RbacService.clearUserPermissionCache
clearUserPermissionCache(userId) ==
  /\ permissionCache' = clearCache(permissionCache, userId)
  /\ last' = Call("clearUserPermissionCache", "ok")
  /\ UNCHANGED <<role, rolePermission, userRole, now>>

\* the wall clock moves on by one TTL
Tick ==
  /\ now' = now + CACHE_TTL
  /\ UNCHANGED <<role, rolePermission, userRole, permissionCache, last>>

\* getPermissionContext up to its await: a hit returns at once, a miss has
\* the resolver read the store and waits
getPermissionContextBegin(callId, userId) ==
  /\ callId \notin DOMAIN pending
  /\ IF CacheHit(userId)
       THEN /\ last' = Call("getPermissionContext", "hit")
            /\ UNCHANGED pending
       ELSE /\ loadPermissionContext(userId).returns
            /\ pending' = [c \in DOMAIN pending \cup {callId} |->
                             IF c = callId
                               THEN [userId |-> userId,
                                     context |-> loadPermissionContext(userId).context]
                               ELSE pending[c]]
            /\ last' = Call("getPermissionContext", "loading")
  /\ UNCHANGED <<role, rolePermission, userRole, permissionCache, now>>

\* getPermissionContext after its await: the loaded context is cached
getPermissionContextEnd(callId) ==
  /\ callId \in DOMAIN pending
  /\ permissionCache' = CacheSet(permissionCache, pending[callId].userId, pending[callId].context)
  /\ pending' = [c \in DOMAIN pending \ {callId} |-> pending[c]]
  /\ last' = Call("getPermissionContext", "loaded")
  /\ UNCHANGED <<role, rolePermission, userRole, now>>

\* -------------------------------------------------------------- route guards
\* (permission as string).replace(/:(own|all)$/, '')
StripScope(permission) ==
  IF Len(permission) >= 2 /\ permission[Len(permission)] \in {"own", "all"}
    THEN SubSeq(permission, 1, Len(permission) - 1)
    ELSE permission

\* Require.Permission on a context already resolved
RequirePermission(permissions, authenticated, permission) ==
  IF ~authenticated THEN "Forbidden"
  ELSE IF hasPermissionIn(permissions, permission) THEN "allowed"
  ELSE "Forbidden"

\* a guard that falls back to the permission as given whoever owns the resource
RequireOwnPermissionAnyOwner(permissions, authenticated, permission, isOwn) ==
  IF ~authenticated THEN "Forbidden"
  ELSE IF hasPermissionIn(permissions, Append(StripScope(permission), "all")) THEN "allowed"
  ELSE IF hasPermissionIn(permissions, permission) THEN "allowed"
  ELSE "Forbidden"

\* Require.OwnPermission on a context already resolved
RequireOwnPermission(permissions, authenticated, permission, isOwn) ==
  IF ~authenticated THEN "Forbidden"
  ELSE LET basePermission == StripScope(permission)
           allPermission == Append(basePermission, "all")
       IN IF hasPermissionIn(permissions, allPermission) THEN "allowed"
          ELSE IF isOwn
            THEN IF hasPermissionIn(permissions, permission) THEN "allowed" ELSE "Forbidden"
          ELSE "Forbidden"

\* PermissionService.hasAnyPermission / hasAllPermissions on a resolved context
hasAnyPermissionIn(permissions, list) ==
  \E i \in DOMAIN list : hasPermissionIn(permissions, list[i])

hasAllPermissionsIn(permissions, list) ==
  \A i \in DOMAIN list : hasPermissionIn(permissions, list[i])

\* Require.Any and Require.All on a context already resolved
RequireAny(permissions, authenticated, list) ==
  IF ~authenticated THEN "Forbidden"
  ELSE IF hasAnyPermissionIn(permissions, list) THEN "allowed"
  ELSE "Forbidden"

RequireAll(permissions, authenticated, list) ==
  IF ~authenticated THEN "Forbidden"
  ELSE IF hasAllPermissionsIn(permissions, list) THEN "allowed"
  ELSE "Forbidden"

\* Require.MePermission on a context already resolved
RequireMePermission(permissions, authenticated, permission) ==
  IF ~authenticated THEN "Forbidden"
  ELSE LET basePermission == StripScope(permission)
       IN IF hasPermissionIn(permissions, basePermission) THEN "allowed"
          ELSE IF hasPermissionIn(permissions, Append(basePermission, "own")) THEN "allowed"
          ELSE "Forbidden"

\* the permissionGuard plugin on a context already resolved
permissionGuard(permissions, authenticated, list, requireAll) ==
  IF ~authenticated THEN "Forbidden"
  ELSE IF requireAll
    THEN IF hasAllPermissionsIn(permissions, list) THEN "allowed" ELSE "Forbidden"
    ELSE IF hasAnyPermissionIn(permissions, list) THEN "allowed" ELSE "Forbidden"

\* ctx.user of a request: absent, an object without id, or a user with an id
CtxUsers == {"none", "noId", "known"}

\* a check that looks for the user object and not for its id
UserPresent(user) == user # "none"

\* what passes  if (!user || !user.id) throw new ForbiddenError(...)
HasUserId(user) == user = "known"

\* list and requireAll are the arguments of a guard that is built on a list of
\* any length
NoGate ==
  [permissions |-> {}, user |-> "none", permission |-> <<>>, also |-> <<>>,
   list |-> <<>>, requireAll |-> "undefined",
   isOwn |-> FALSE, guard |-> "none", outcome |-> "none", consulted |-> FALSE]

\* a guard has run: its outcome, and whether it called PermissionService (every
\* guard does once the user check has passed)
Guarded(guard, outcome) ==
  /\ gate.guard = "none"
  /\ gate' = [gate EXCEPT !.guard = guard, !.outcome = outcome,
                          !.consulted = HasUserId(gate.user)]
  /\ UNCHANGED <<role, rolePermission, userRole, permissionCache, now, last, pending, fresh,
               tx, reparent, signup, walk>>

PermissionGuard ==
  Guarded("Permission",
          RequirePermission(gate.permissions, HasUserId(gate.user), gate.permission))

AnyGuard ==
  Guarded("Any",
          RequireAny(gate.permissions, HasUserId(gate.user), <<gate.permission, gate.also>>))

AllGuard ==
  Guarded("All",
          RequireAll(gate.permissions, HasUserId(gate.user), <<gate.permission, gate.also>>))

OwnPermissionGuard ==
  Guarded("OwnPermission",
          RequireOwnPermission(gate.permissions, HasUserId(gate.user),
                               gate.permission, gate.isOwn))

MePermissionGuard ==
  Guarded("MePermission",
          RequireMePermission(gate.permissions, HasUserId(gate.user), gate.permission))

PluginGuard ==
  \E requireAll \in BOOLEAN :
    Guarded("permissionGuard",
            permissionGuard(gate.permissions, HasUserId(gate.user),
                            <<gate.permission, gate.also>>, requireAll))

\* const { permissions, requireAll = true } = options
RequireAllOption(requireAll) ==
  IF requireAll = "undefined" THEN TRUE ELSE requireAll = "true"

\* Require.All(...permissions), Require.Any(...permissions) and
\* permissionGuard({permissions, requireAll}) built on gate.list
AllGuardOfList ==
  Guarded("All", RequireAll(gate.permissions, HasUserId(gate.user), gate.list))

AnyGuardOfList ==
  Guarded("Any", RequireAny(gate.permissions, HasUserId(gate.user), gate.list))

PluginGuardOfList ==
  Guarded("permissionGuard",
          permissionGuard(gate.permissions, HasUserId(gate.user), gate.list,
                          RequireAllOption(gate.requireAll)))

\* ------------------------------------------------------ the seeded roles
\* the ids of the three roles seedRoles creates
seedSuperAdmin == MaxRoles + 1
seedAdmin == MaxRoles + 2
seedUser == MaxRoles + 3

SystemRoleIds == {seedSuperAdmin, seedAdmin, seedUser}

\* the Role table after seedRoles: the upserts, then admin's parent set to
\* superAdmin by prisma.role.update, which leaves its level alone
seedRoles ==
  [r \in SystemRoleIds |->
     IF r = seedSuperAdmin THEN [parentId |-> NULL, level |-> 100, isSystem |-> TRUE]
     ELSE IF r = seedAdmin THEN [parentId |-> seedSuperAdmin, level |-> 90, isSystem |-> TRUE]
     ELSE [parentId |-> NULL, level |-> 50, isSystem |-> TRUE]]

\* ------------------------------------------------- registration of users
\* users: the rows of prisma.user; created: every user ever created, in order;
\* hooks: users whose create.after hook has not run yet; given: the role the
\* hook assigned to a user
NoSignup == [users |-> {}, created |-> <<>>, hooks |-> {}, given |-> <<>>]

SignupUserIds == 1..MaxSignups

\* BetterAuth inserts the user row; the create.after hook runs later
createUser(userId) ==
  /\ \A i \in DOMAIN signup.created : signup.created[i] # userId
  /\ signup' = [signup EXCEPT !.users = @ \cup {userId},
                              !.created = Append(@, userId),
                              !.hooks = @ \cup {userId}]
  /\ last' = Call("createUser", "ok")
  /\ UNCHANGED <<role, rolePermission, userRole, permissionCache, now>>

\* what the database does with the UserRole rows of a deleted user
UserReferentialActions == {"Restrict", "Cascade"}

\* UserRepository.delete
deleteUser(userId, onDelete) ==
  /\ userId \in signup.users
  /\ userId \notin signup.hooks
  /\ IF onDelete = "Restrict" /\ \E ur \in userRole : ur[1] = userId
       THEN /\ last' = Call("deleteUser", "StoreError")
            /\ UNCHANGED <<userRole, signup>>
       ELSE /\ userRole' = {ur \in userRole : ur[1] # userId}
            /\ signup' = [signup EXCEPT !.users = @ \ {userId}]
            /\ last' = Call("deleteUser", "ok")
  /\ UNCHANGED <<role, rolePermission, permissionCache, now>>

\* the role the hook picks: superAdmin when prisma.user.count() is 1
DefaultRoleFor(userCount) == IF userCount = 1 THEN seedSuperAdmin ELSE seedUser

\* the create.after hook of a user; whatever it throws is logged and dropped
assignDefaultRoleToUser(userId) ==
  LET roleId == DefaultRoleFor(Cardinality(signup.users))
  IN /\ userId \in signup.hooks
     /\ IF roleId \notin DOMAIN role
          THEN /\ last' = Call("assignDefaultRoleToUser", "noRole")
               /\ signup' = [signup EXCEPT !.hooks = @ \ {userId}]
               /\ UNCHANGED <<role, rolePermission, userRole, permissionCache, now>>
          ELSE /\ assignRoleToUser(userId, roleId, TRUE)
               /\ signup' =
                    [signup EXCEPT
                       !.hooks = @ \ {userId},
                       !.given = [u \in DOMAIN signup.given \cup {userId} |->
                                    IF u = userId THEN roleId ELSE signup.given[u]]]

\* ------------------------------------------- replacePermissions, step by step
NoTx == [roleId |-> NULL, permissionIds |-> <<>>, old |-> {}, rows |-> {}, step |-> "none"]

\* the rows of a role in a table
RowsOfRole(rows, roleId) == {rp \in rows : rp[1] = roleId}

\* a database that shows a transaction's writes to other connections at once
DirtyRead(committed, written) == written

\* what other connections read of the table while a transaction holds
\* uncommitted writes to it: PostgreSQL shows them committed rows only
ReadCommitted(committed, written) == committed

\* a transaction whose writes stay when its callback throws
KeepWritten(committed, written, roleId) ==
  (committed \ RowsOfRole(committed, roleId)) \cup RowsOfRole(written, roleId)

\* prisma.$transaction(async (tx) => ...) when the callback throws: the
\* writes made through tx are discarded
RolledBack(committed, written, roleId) == committed

\* RbacService.replaceRolePermissions up to prisma.$transaction: the role is
\* looked up and the transaction is opened on the table as committed
replaceBegin(roleId, permissionIds) ==
  /\ tx = NoTx
  /\ IF roleId \notin DOMAIN role
       THEN /\ last' = Call("replaceRolePermissions", "NotFound")
            /\ UNCHANGED tx
       ELSE /\ tx' = [roleId |-> roleId, permissionIds |-> permissionIds,
                      old |-> RowsOfRole(rolePermission, roleId),
                      rows |-> rolePermission, step |-> "open"]
            /\ last' = Call("replaceRolePermissions", "begin")
  /\ UNCHANGED <<role, rolePermission, userRole, permissionCache, now>>

\* tx.rolePermission.deleteMany({where: {roleId}})
replaceDeleteMany ==
  /\ tx.step = "open"
  /\ LET written == {rp \in tx.rows : rp[1] # tx.roleId}
     IN /\ tx' = [tx EXCEPT !.rows = written, !.step = "deleted"]
        /\ rolePermission' = ReadCommitted(rolePermission, written)
  /\ last' = Call("replaceRolePermissions", "deleteMany")
  /\ UNCHANGED <<role, userRole, permissionCache, now>>

\* tx.rolePermission.createMany({data}) when the list is not empty; a key
\* conflict raises, the transaction is rolled back and the call throws
replaceCreateMany ==
  /\ tx.step = "deleted"
  /\ LET data == RowsOf(tx.roleId, tx.permissionIds)
     IN IF Len(tx.permissionIds) > 0 /\ createManyThrows(tx.rows, data, FALSE)
          THEN /\ tx' = NoTx
               /\ rolePermission' = RolledBack(rolePermission, tx.rows, tx.roleId)
               /\ last' = Call("replaceRolePermissions", "StoreError")
          ELSE LET written == IF Len(tx.permissionIds) > 0
                                THEN createMany(tx.rows, data) ELSE tx.rows
               IN /\ tx' = [tx EXCEPT !.rows = written, !.step = "created"]
                  /\ rolePermission' = ReadCommitted(rolePermission, written)
                  /\ last' = Call("replaceRolePermissions", "createMany")
  /\ UNCHANGED <<role, userRole, permissionCache, now>>

\* the callback of prisma.$transaction returns: the writes are committed
replaceCommit ==
  /\ tx.step = "created"
  /\ rolePermission' = (rolePermission \ RowsOfRole(rolePermission, tx.roleId))
                         \cup RowsOfRole(tx.rows, tx.roleId)
  /\ tx' = [tx EXCEPT !.step = "committed"]
  /\ last' = Call("replaceRolePermissions", "commit")
  /\ UNCHANGED <<role, userRole, permissionCache, now>>

\* replaceRolePermissions after the transaction: the caches of the holders
\* are cleared and the call returns
replaceEnd ==
  /\ tx.step = "committed"
  /\ permissionCache' = clearCacheOfUsers(permissionCache, findUsersByRole(tx.roleId))
  /\ tx' = NoTx
  /\ last' = Call("replaceRolePermissions", "ok")
  /\ UNCHANGED <<role, rolePermission, userRole, now>>

\* ------------------------------------- loadPermissionContext, query by query
\* whole is what the store resolved to when the call started
NoWalk ==
  [userId |-> NULL, rows |-> {}, roleIds |-> {}, parentId |-> NULL, whole |-> {},
   broke |-> FALSE, context |-> EmptyContext, step |-> "none"]

\* a walk that throws when findUnique finds no parent
FindUniqueMissThrows(w) == [w EXCEPT !.step = "failed", !.broke = TRUE]

\* if (!parentRole) break
FindUniqueMiss(w) == [w EXCEPT !.parentId = NULL, !.broke = TRUE]

\* prisma.userRole.findMany({where: {userId}, include: {role}}): the held roles
\* with the parentId each had when the rows were read
loadBegin(userId) ==
  /\ walk.step \in {"none", "done"}
  /\ LET held == HeldRoles(userId)
     IN walk' = IF held = {}
                  THEN [NoWalk EXCEPT !.userId = userId, !.step = "done"]
                  ELSE [NoWalk EXCEPT !.userId = userId,
                                      !.rows = {<<r, role[r].parentId>> : r \in held},
                                      !.whole = loadPermissionContext(userId).context.permissions,
                                      !.context = [permissions |-> {}, roles |-> held],
                                      !.step = "walking"]
  /\ last' = Call("loadPermissionContext", "findMany")
  /\ UNCHANGED <<role, rolePermission, userRole, permissionCache, now, pending, fresh,
                 gate, tx, reparent, signup>>

\* for (const userRole of userRoles): roleIds.add(role.id), currentRole = role
loadNextRole ==
  /\ walk.step = "walking" /\ walk.parentId = NULL
  /\ \E row \in walk.rows :
       walk' = [walk EXCEPT !.rows = @ \ {row}, !.roleIds = @ \cup {row[1]},
                            !.parentId = row[2]]
  /\ last' = Call("loadPermissionContext", "role")
  /\ UNCHANGED <<role, rolePermission, userRole, permissionCache, now, pending, fresh,
                 gate, tx, reparent, signup>>

\* one round of the while loop: roleIds.add(currentRole.parentId), then
\* prisma.role.findUnique on the store as it is now
loadFindUnique ==
  /\ walk.step = "walking" /\ walk.parentId # NULL
  /\ LET added == [walk EXCEPT !.roleIds = @ \cup {walk.parentId}]
     IN walk' = IF walk.parentId \notin DOMAIN role
                  THEN FindUniqueMiss(added)
                  ELSE [added EXCEPT !.parentId = role[walk.parentId].parentId]
  /\ last' = Call("loadPermissionContext", "findUnique")
  /\ UNCHANGED <<role, rolePermission, userRole, permissionCache, now, pending, fresh,
                 gate, tx, reparent, signup>>

\* prisma.rolePermission.findMany({where: {roleId: {in: roleIds}}}) and return
loadFindPermissions ==
  /\ walk.step = "walking" /\ walk.parentId = NULL /\ walk.rows = {}
  /\ walk' = [walk EXCEPT !.context.permissions = PermissionsOfRoles(walk.roleIds),
                          !.step = "done"]
  /\ last' = Call("loadPermissionContext", "ok")
  /\ UNCHANGED <<role, rolePermission, userRole, permissionCache, now, pending, fresh,
                 gate, tx, reparent, signup>>

\* --------------------------------------------------------- specifications
\* an empty database and an empty cache
Init ==
  /\ role = <<>>
  /\ rolePermission = {}
  /\ userRole = {}
  /\ permissionCache = <<>>
  /\ now = 0
  /\ last = Call("start", "ok")
  /\ pending = <<>>
  /\ fresh = {}
  /\ tx = NoTx
  /\ reparent = <<>>
  /\ signup = NoSignup
  /\ walk = NoWalk
  /\ gate = NoGate

\* the part of the state space the specifications explore
Within ==
  /\ \A r \in DOMAIN role' : role'[r].level <= MaxLevel
  /\ Cardinality(rolePermission') <= MaxRolePermissionRows
  /\ Cardinality(userRole') <= MaxUserRoleRows
  /\ now' <= MaxTicks * CACHE_TTL

\* a call that runs to completion while no getPermissionContext is waiting
Atomic(call) ==
  /\ call
  /\ Within
  /\ UNCHANGED <<pending, fresh, gate, tx, reparent, signup, walk>>

RoleStep(roleIds) ==
  \/ \E name \in roleIds, parentId \in {NULL} \cup roleIds :
       Atomic(createRole(name, parentId))
  \/ \E roleId \in roleIds, parentId \in {NULL} \cup roleIds :
       Atomic(setRoleParent(roleId, parentId))
  \/ \E id \in roleIds, parentId \in {NULL, UNDEFINED} \cup roleIds :
       Atomic(updateRole(id, parentId))
  \/ \E id \in roleIds, onDelete \in ReferentialActions :
       Atomic(deleteRole(id, onDelete))

RolePermissionStep(roleIds) ==
  \/ \E roleId \in roleIds, permissionIds \in PermissionLists :
       Atomic(assignPermissionsToRole(roleId, permissionIds))
  \/ \E roleId \in roleIds, permissionId \in PermissionIds :
       Atomic(removePermissionFromRole(roleId, permissionId))
  \/ \E roleId \in roleIds, permissionIds \in PermissionLists :
       Atomic(replaceRolePermissions(roleId, permissionIds))

UserRoleStep(roleIds, userIds) ==
  \/ \E userId \in userIds, roleId \in roleIds, unique \in BOOLEAN :
       Atomic(assignRoleToUser(userId, roleId, unique))
  \/ \E userId \in userIds, roleId \in roleIds :
       Atomic(removeRoleFromUser(userId, roleId))

QueryStep(userIds) ==
  \/ \E userId \in userIds, request \in DOMAIN Requests :
       Atomic(hasPermission(userId, request))
  \/ \E userId \in userIds : Atomic(clearUserPermissionCache(userId))
  \/ Atomic(Tick)

\* the role hierarchy alone: every call runs to completion before the next
HierarchyNext == RoleStep(RoleIds)

SpecHierarchy == Init /\ [][HierarchyNext]_vars

\* the stores, the cache and the queries: every call runs to completion
Next ==
  \/ RoleStep(CacheRoleIds)
  \/ RolePermissionStep(CacheRoleIds)
  \/ UserRoleStep(CacheRoleIds, CacheUserIds)
  \/ QueryStep(CacheUserIds)

Spec == Init /\ [][Next]_vars

\* one role held by several users
UsersNext ==
  \/ RoleStep({1})
  \/ RolePermissionStep({1})
  \/ UserRoleStep({1}, UserIds)
  \/ QueryStep(UserIds)

SpecUsers == Init /\ [][UsersNext]_vars

\* ------------------------------------------------------------ route guards run
\* permission strings a context may hold (Permissions constants and wildcards)
HeldStrings ==
  { <<"*">>, <<"user", "*">>, <<"user", "delete">>, <<"user", "delete", "*">>,
    <<"user", "delete", "own">>, <<"user", "delete", "all">>,
    <<"user", "read", "own">>, <<"user", "read", "all">> }

\* the permission a guard is built with
GuardArguments ==
  { <<"user", "delete">>, <<"user", "delete", "own">>,
    <<"user", "read", "own">>, <<"user", "read", "all">> }

\* one request reaches one guard: any context, any argument, any owner
GateInit ==
  /\ role = <<>>
  /\ rolePermission = {}
  /\ userRole = {}
  /\ permissionCache = <<>>
  /\ now = 0
  /\ last = Call("start", "ok")
  /\ pending = <<>>
  /\ fresh = {}
  /\ tx = NoTx
  /\ reparent = <<>>
  /\ signup = NoSignup
  /\ walk = NoWalk
  /\ gate \in [permissions : SUBSET HeldStrings, user : CtxUsers,
               permission : GuardArguments, also : GuardArguments, isOwn : BOOLEAN,
               list : {<<>>}, requireAll : {"undefined"},
               guard : {"none"}, outcome : {"none"}, consulted : {FALSE}]

GateNext ==
  \/ PermissionGuard
  \/ AnyGuard
  \/ AllGuard
  \/ OwnPermissionGuard
  \/ MePermissionGuard
  \/ PluginGuard

SpecGate == GateInit /\ [][GateNext]_vars

\* the rest parameter of Require.All / Require.Any and options.permissions
GuardLists == UNION {[1..n -> GuardArguments] : n \in 0..MaxListed}

\* one request reaches one guard built on a list: any context, any list
ListsInit ==
  /\ role = <<>>
  /\ rolePermission = {}
  /\ userRole = {}
  /\ permissionCache = <<>>
  /\ now = 0
  /\ last = Call("start", "ok")
  /\ pending = <<>>
  /\ fresh = {}
  /\ tx = NoTx
  /\ reparent = <<>>
  /\ signup = NoSignup
  /\ walk = NoWalk
  /\ gate \in [permissions : SUBSET HeldStrings, user : CtxUsers,
               permission : {<<>>}, also : {<<>>}, isOwn : {FALSE},
               list : GuardLists, requireAll : {"undefined", "true", "false"},
               guard : {"none"}, outcome : {"none"}, consulted : {FALSE}]

ListsNext ==
  \/ AllGuardOfList
  \/ AnyGuardOfList
  \/ PluginGuardOfList

SpecLists == ListsInit /\ [][ListsNext]_vars

\* ---------------------------------------------------------- resolver runs
\* role tables whose levels are those RoleRepository.create computes: every
\* parent exists and sits one level above, so no parent chain loops
RoleTables ==
  UNION { { t \in [D -> [parentId : D \cup {NULL}, level : 0..MaxLevel, isSystem : {FALSE}]] :
              \A r \in D :
                t[r].level = IF t[r].parentId = NULL THEN 0 ELSE t[t[r].parentId].level + 1 }
          : D \in SUBSET RoleIds }

\* any such hierarchy with any grants and any holders, and an empty cache
ResolverInit ==
  /\ role \in RoleTables
  /\ rolePermission \in {rows \in SUBSET ((DOMAIN role) \X PermissionIds) :
                            Cardinality(rows) <= MaxRolePermissionRows}
  /\ userRole \in {rows \in SUBSET (UserIds \X (DOMAIN role)) :
                      Cardinality(rows) <= MaxUserRoleRows}
  /\ permissionCache = <<>>
  /\ now = 0
  /\ last = Call("start", "ok")
  /\ pending = <<>>
  /\ fresh = {}
  /\ tx = NoTx
  /\ reparent = <<>>
  /\ signup = NoSignup
  /\ walk = NoWalk
  /\ gate = NoGate

ResolverNext ==
  \/ \E callId \in CallIds, userId \in UserIds :
       /\ getPermissionContextBegin(callId, userId)
       /\ UNCHANGED <<fresh, gate, tx, reparent, signup, walk>>
  \/ \E callId \in CallIds :
       /\ getPermissionContextEnd(callId)
       /\ UNCHANGED <<fresh, gate, tx, reparent, signup, walk>>

SpecResolver == ResolverInit /\ [][ResolverNext]_vars

\* ----------------------------------------------------- interleaved requests
\* fresh after a call: the users whose entry the call cleared, together with
\* those cleared before when the call left the store as it was
Invalidated(users) ==
  IF last'.res # "ok" THEN fresh
  ELSE IF store' = store THEN fresh \cup users
  ELSE users

\* a call that runs while getPermissionContext calls may be waiting
Racing(call, users) ==
  /\ call
  /\ Within
  /\ fresh' = Invalidated(users)
  /\ UNCHANGED <<pending, gate, tx, reparent, signup, walk>>

\* service calls run between the two halves of getPermissionContext
RaceNext ==
  \/ Racing(createRole(1, NULL), {})
  \/ \E permissionIds \in PermissionLists :
       Racing(replaceRolePermissions(1, permissionIds), findUsersByRole(1))
  \/ \E userId \in CacheUserIds, unique \in BOOLEAN :
       Racing(assignRoleToUser(userId, 1, unique), {userId})
  \/ \E userId \in CacheUserIds :
       Racing(removeRoleFromUser(userId, 1), {userId})
  \/ \E userId \in CacheUserIds :
       Racing(clearUserPermissionCache(userId), {userId})
  \/ \E callId \in CallIds, userId \in CacheUserIds :
       /\ getPermissionContextBegin(callId, userId)
       /\ UNCHANGED <<fresh, gate, tx, reparent, signup, walk>>
  \/ \E callId \in CallIds :
       /\ getPermissionContextEnd(callId)
       /\ UNCHANGED <<fresh, gate, tx, reparent, signup, walk>>

SpecRace == Init /\ [][RaceNext]_vars

\* ------------------------------- a bulk replace while resolvers are loading
\* a call of another request while a replace may be in its transaction
Beside(call) ==
  /\ call
  /\ Within
  /\ UNCHANGED <<pending, fresh, gate, tx, reparent, signup, walk>>

\* a step of replaceRolePermissions
Replacing(step) ==
  /\ step
  /\ Within
  /\ UNCHANGED <<pending, fresh, gate, reparent, signup, walk>>

TxNext ==
  \/ \E name \in CacheRoleIds : Beside(createRole(name, NULL))
  \/ \E userId \in CacheUserIds, roleId \in CacheRoleIds, unique \in BOOLEAN :
       Beside(assignRoleToUser(userId, roleId, unique))
  \/ \E roleId \in CacheRoleIds, permissionIds \in PermissionLists :
       Replacing(replaceBegin(roleId, permissionIds))
  \/ Replacing(replaceDeleteMany)
  \/ Replacing(replaceCreateMany)
  \/ Replacing(replaceCommit)
  \/ Replacing(replaceEnd)
  \/ \E callId \in CallIds, userId \in CacheUserIds :
       /\ getPermissionContextBegin(callId, userId)
       /\ UNCHANGED <<fresh, gate, tx, reparent, signup, walk>>
  \/ \E callId \in CallIds :
       /\ getPermissionContextEnd(callId)
       /\ UNCHANGED <<fresh, gate, tx, reparent, signup, walk>>

SpecTx == Init /\ [][TxNext]_vars

\* any hierarchy with any grants, the roles one user holds, and no call running
WalkInit ==
  /\ role \in RoleTables
  /\ rolePermission \in {rows \in SUBSET ((DOMAIN role) \X PermissionIds) :
                            Cardinality(rows) <= MaxRolePermissionRows}
  /\ userRole \in {rows \in SUBSET (CacheUserIds \X (DOMAIN role)) :
                      Cardinality(rows) <= MaxUserRoleRows}
  /\ permissionCache = <<>>
  /\ now = 0
  /\ last = Call("start", "ok")
  /\ pending = <<>>
  /\ fresh = {}
  /\ tx = NoTx
  /\ reparent = <<>>
  /\ signup = NoSignup
  /\ walk = NoWalk
  /\ gate = NoGate

\* loadPermissionContext query by query while roles are deleted
WalkNext ==
  \/ \E userId \in CacheUserIds : loadBegin(userId)
  \/ loadNextRole
  \/ loadFindUnique
  \/ loadFindPermissions
  \/ \E id \in RoleIds, onDelete \in ReferentialActions : Beside(deleteRole(id, onDelete))

SpecWalk == WalkInit /\ [][WalkNext]_vars

\* replaceRolePermissions step by step on lists that may repeat an id or name
\* a missing permission; the other role-permission call is awaited before a
\* replace is started
ReplaceNext ==
  \/ \E name \in RoleIds : Beside(createRole(name, NULL))
  \/ \E roleId \in RoleIds, permissionIds \in PermissionLists :
       tx = NoTx /\ Beside(assignPermissionsToRole(roleId, permissionIds))
  \/ \E roleId \in RoleIds, permissionIds \in ReplaceLists :
       Replacing(replaceBegin(roleId, permissionIds))
  \/ Replacing(replaceDeleteMany)
  \/ Replacing(replaceCreateMany)
  \/ Replacing(replaceCommit)
  \/ Replacing(replaceEnd)

SpecReplace == Init /\ [][ReplaceNext]_vars

\* ------------------------------------------- re-parenting calls that overlap
ReparentCallIds == 1..MaxReparents

\* a step of a setRoleParent call
Reparenting(step) ==
  /\ step
  /\ Within
  /\ UNCHANGED <<pending, fresh, gate, tx, signup, walk>>

OverlapNext ==
  \/ \E name \in CacheRoleIds : Beside(createRole(name, NULL))
  \/ \E userId \in CacheUserIds, roleId \in CacheRoleIds, unique \in BOOLEAN :
       Beside(assignRoleToUser(userId, roleId, unique))
  \/ \E callId \in ReparentCallIds, roleId \in CacheRoleIds,
        parentId \in {NULL} \cup CacheRoleIds :
       Reparenting(setRoleParentBegin(callId, roleId, parentId))
  \/ \E callId \in ReparentCallIds : Reparenting(setRoleParentEnd(callId))
  \/ \E userId \in CacheUserIds, request \in DOMAIN Requests :
       Beside(hasPermission(userId, request))

SpecOverlap == Init /\ [][OverlapNext]_vars

\* -------------------------------------------------------- the seeded store
SeededInit ==
  /\ role = seedRoles
  /\ rolePermission = {}
  /\ userRole = {}
  /\ permissionCache = <<>>
  /\ now = 0
  /\ last = Call("start", "ok")
  /\ pending = <<>>
  /\ fresh = {}
  /\ tx = NoTx
  /\ reparent = <<>>
  /\ signup = NoSignup
  /\ walk = NoWalk
  /\ gate = NoGate

\* the names createRole may use next to the seeded ones
SeededNames == 1..MaxSeededNames

SeededRoleIds == SeededNames \cup SystemRoleIds

\* a role call on the seeded store; the roles that are not system roles stay
\* within MaxLevel
Seeded(call) ==
  /\ call
  /\ \A r \in DOMAIN role' : role'[r].isSystem \/ role'[r].level <= MaxLevel
  /\ UNCHANGED <<pending, fresh, gate, tx, reparent, signup, walk>>

SeededNext ==
  \/ \E name \in SeededRoleIds, parentId \in {NULL} \cup SeededRoleIds :
       Seeded(createRole(name, parentId))
  \/ \E roleId \in SeededRoleIds, parentId \in {NULL} \cup SeededRoleIds :
       Seeded(setRoleParent(roleId, parentId))
  \/ \E id \in SeededRoleIds, parentId \in {NULL, UNDEFINED} \cup SeededRoleIds :
       Seeded(updateRole(id, parentId))
  \/ \E id \in SeededRoleIds, onDelete \in ReferentialActions :
       Seeded(deleteRole(id, onDelete))

SpecSeeded == SeededInit /\ [][SeededNext]_vars

\* re-parenting on the seeded store, with room for a chain of MaxRoles roles
\* that are not system roles
ReparentRoleIds == RoleIds \cup SystemRoleIds

ReparentNext ==
  \/ \E name \in ReparentRoleIds, parentId \in {NULL} \cup ReparentRoleIds :
       Seeded(createRole(name, parentId))
  \/ \E roleId \in ReparentRoleIds, parentId \in {NULL} \cup ReparentRoleIds :
       Seeded(setRoleParent(roleId, parentId))
  \/ \E id \in ReparentRoleIds, onDelete \in ReferentialActions :
       Seeded(deleteRole(id, onDelete))

SpecReparent == SeededInit /\ [][ReparentNext]_vars

\* ------------------------------------------- registrations on the seeded store
\* a registration step; the resolver, the guards and the stepwise calls rest
Registering(step) ==
  /\ step
  /\ Cardinality(userRole') <= MaxSignups
  /\ UNCHANGED <<pending, fresh, gate, tx, reparent, walk>>

SignupNext ==
  \/ \E userId \in SignupUserIds : Registering(createUser(userId))
  \/ \E userId \in SignupUserIds : Registering(assignDefaultRoleToUser(userId))
  \/ \E userId \in SignupUserIds, onDelete \in UserReferentialActions :
       Registering(deleteUser(userId, onDelete))
  \/ \E userId \in SignupUserIds, roleId \in SystemRoleIds :
       Registering(removeRoleFromUser(userId, roleId) /\ UNCHANGED signup)

SpecSignup == SeededInit /\ [][SignupNext]_vars

\* ------------------------------------- grants to the seeded admin role
\* a call on the seeded store, within the caps of the cache specifications
OnSeeded(call) ==
  /\ Seeded(call)
  /\ rolePermission' = rolePermission
       \/ Cardinality(rolePermission') <= MaxRolePermissionRows
  /\ Cardinality(userRole') <= MaxUserRoleRows
  /\ now' <= MaxTicks * CACHE_TTL

AdminNext ==
  \/ \E permissionIds \in PermissionLists :
       OnSeeded(assignPermissionsToRole(seedAdmin, permissionIds))
  \/ \E permissionId \in PermissionIds :
       OnSeeded(removePermissionFromRole(seedAdmin, permissionId))
  \/ \E userId \in UserIds, unique \in BOOLEAN :
       OnSeeded(assignRoleToUser(userId, seedAdmin, unique))
  \/ \E userId \in UserIds : OnSeeded(removeRoleFromUser(userId, seedAdmin))
  \/ \E parentId \in {NULL} \cup SystemRoleIds :
       OnSeeded(setRoleParent(seedAdmin, parentId))
  \/ \E parentId \in {NULL, UNDEFINED} \cup SystemRoleIds :
       OnSeeded(updateRole(seedAdmin, parentId))
  \/ \E userId \in UserIds, request \in DOMAIN Requests :
       OnSeeded(hasPermission(userId, request))
  \/ OnSeeded(Tick)

SpecAdmin == SeededInit /\ [][AdminNext]_vars

\* -------------------------------------- the store after the whole seed
\* the permissions seedRolePermissions lists for admin and for user
adminPermissions ==
  { <<"user", "create">>, <<"user", "read", "own">>, <<"user", "update", "own">>,
    <<"user", "delete", "own">>, <<"user", "read", "all">>, <<"user", "update", "all">>,
    <<"user", "delete", "all">>, <<"user_role", "read", "own">>,
    <<"user_role", "read", "all">>, <<"user_role", "update", "all">>,
    <<"user_role", "delete", "all">>, <<"user_permission", "read", "own">>,
    <<"user_permission", "read", "all">> }

userPermissions ==
  { <<"user", "read", "own">>, <<"user", "update", "own">>, <<"user", "delete", "own">>,
    <<"user_role", "read", "own">>, <<"user_permission", "read", "own">> }

\* assignByConstant: a row for each listed string that names a Permission row
AssignedByConstant(roleId, strings) ==
  {<<roleId, p>> : p \in {q \in DOMAIN PermissionTable : PermissionStringOf(q) \in strings}}

\* the RolePermission table after seedRolePermissions: every Permission row
\* for superAdmin, the listed ones for admin and for user
seedRolePermissions ==
  {<<seedSuperAdmin, p>> : p \in DOMAIN PermissionTable}
    \cup AssignedByConstant(seedAdmin, adminPermissions)
    \cup AssignedByConstant(seedUser, userPermissions)

FullSeedInit ==
  /\ role = seedRoles
  /\ rolePermission = seedRolePermissions
  /\ userRole = {}
  /\ permissionCache = <<>>
  /\ now = 0
  /\ last = Call("start", "ok")
  /\ pending = <<>>
  /\ fresh = {}
  /\ tx = NoTx
  /\ reparent = <<>>
  /\ signup = NoSignup
  /\ walk = NoWalk
  /\ gate = NoGate

FullSeedNext ==
  \/ \E userId \in UserIds, roleId \in SystemRoleIds, unique \in BOOLEAN :
       OnSeeded(assignRoleToUser(userId, roleId, unique))
  \/ \E userId \in UserIds, roleId \in SystemRoleIds :
       OnSeeded(removeRoleFromUser(userId, roleId))
  \/ \E userId \in UserIds, request \in DOMAIN Requests :
       OnSeeded(hasPermission(userId, request))
  \/ OnSeeded(Tick)

SpecFullSeed == FullSeedInit /\ [][FullSeedNext]_vars

\* ------------------------------------------------------------------ claims
\* the role reached from r by following parentId n times (NULL past a root)
RECURSIVE NthParent(_, _)
NthParent(r, n) ==
  IF n = 0 THEN r
  ELSE LET below == NthParent(r, n - 1)
       IN IF below \in DOMAIN role THEN role[below].parentId ELSE NULL

\* a is r or an ancestor of r at any depth
IsAncestorOrSelf(a, r) ==
  \E n \in 0..Cardinality(DOMAIN role) : NthParent(r, n) = a

\* the strings attached to the roles u holds and to their ancestors
ClosurePermissions(u) ==
  {PermissionStringOf(rp[2]) :
     rp \in {x \in rolePermission : \E h \in HeldRoles(u) : IsAncestorOrSelf(x[1], h)}}

\* C1: for every user and every acyclic role hierarchy, the permissions of
\* loadPermissionContext(user) are the union of the permission strings attached
\* to every role the user holds directly and to every ancestor of those roles at
\* any depth; if B's parent is A and A holds p, a user holding only B resolves p.
C1_InheritanceClosure ==
  /\ \A u \in UserIds :
       /\ loadPermissionContext(u).returns
       /\ loadPermissionContext(u).context.permissions = ClosurePermissions(u)
  /\ \A c \in DOMAIN pending :
       pending[c].context.permissions = ClosurePermissions(pending[c].userId)
  /\ \A u \in UserIds, B \in DOMAIN role, p \in PermissionIds :
       (HeldRoles(u) = {B} /\ role[B].parentId # NULL
          /\ <<role[B].parentId, p>> \in rolePermission)
       => PermissionStringOf(p) \in loadPermissionContext(u).context.permissions

C1_GrandparentGrantResolved ==
  \E c \in DOMAIN pending, B \in DOMAIN role :
    /\ HeldRoles(pending[c].userId) = {B}
    /\ role[B].parentId # NULL
    /\ role[role[B].parentId].parentId # NULL
    /\ rolePermission = {<<role[role[B].parentId].parentId, 1>>}
    /\ pending[c].context.permissions = {PermissionStringOf(1)}

\* from r, following parentId links reaches a role with no parent within n hops
RECURSIVE ReachesRoot(_, _)
ReachesRoot(r, n) ==
  IF r \notin DOMAIN role THEN FALSE
  ELSE IF role[r].parentId = NULL THEN TRUE
  ELSE IF n = 0 THEN FALSE
  ELSE ReachesRoot(role[r].parentId, n - 1)

\* C2: in every state reached by createRole, setRoleParent, updateRole and
\* deleteRole calls, each run to completion, the parent relation is acyclic:
\* from every role, following parentId links reaches a role with no parent
\* within N hops, N being the number of roles.
C2_ParentRelationAcyclic ==
  \A r \in DOMAIN role : ReachesRoot(r, Cardinality(DOMAIN role))

C2_CycleAttemptRejected ==
  /\ last = Call("setRoleParent", "CycleDetected")
  /\ \E r \in DOMAIN role :
       /\ role[r].parentId # NULL
       /\ role[role[r].parentId].parentId # NULL

\* C3: under every sequence of RbacService mutations and hasPermission queries,
\* a query answers with the 5-minute cache what it answers with the cache
\* disabled, that is, what the store resolves to.
C3_CacheTransparent ==
  \A u \in CacheUserIds, request \in DOMAIN Requests :
    hasPermissionIn(ContextServed(u).permissions, Requests[request])
      = hasPermissionIn(loadPermissionContext(u).context.permissions, Requests[request])

\* C4: a getPermissionContext(userId) call that starts after clearCache(userId)
\* has returned yields loadPermissionContext(userId) of the store at that
\* moment, in every interleaving, also when another getPermissionContext for
\* the user loaded before the mutation and stores its result after it.
C4_GetAfterClearIsCurrent ==
  \A u \in fresh :
    ContextServed(u) = loadPermissionContext(u).context

\* users whose role closure contains R through a descendant only
HoldersByDescent(R) ==
  {u \in CacheUserIds :
     /\ R \notin HeldRoles(u)
     /\ \E h \in HeldRoles(u) : IsAncestorOrSelf(R, h)}

\* a role-permission call on R that returned
RolePermissionCallOn(R) ==
  /\ last'.res = "ok"
  /\ \/ \E permissionIds \in PermissionLists : assignPermissionsToRole(R, permissionIds)
     \/ \E permissionId \in PermissionIds : removePermissionFromRole(R, permissionId)
     \/ \E permissionIds \in PermissionLists : replaceRolePermissions(R, permissionIds)

\* C5: after assignPermissionsToRole, removePermissionFromRole or
\* replaceRolePermissions on role R returns, no user whose role closure contains
\* R only through a descendant role still has a cache entry from before.
C5_DescendantHoldersInvalidated ==
  [][\A R \in CacheRoleIds :
       RolePermissionCallOn(R)
       => \A u \in HoldersByDescent(R) : ~CacheHit(u)']_vars

\* setRoleParent or updateRole has changed the parent of R
ParentChanged(R) ==
  /\ last'.op \in {"setRoleParent", "updateRole"}
  /\ last'.res = "ok"
  /\ R \in DOMAIN role
  /\ role'[R].parentId # role[R].parentId

\* C6: after setRoleParent or updateRole changes the parent of role R, no user
\* holding R or a descendant of R is answered by hasPermission from a cache
\* entry computed before: the next hasPermission reflects the new chain.
C6_ReparentInvalidates ==
  [][\A R \in CacheRoleIds :
       ParentChanged(R)
       => \A u \in CacheUserIds, request \in DOMAIN Requests :
            (\E h \in HeldRoles(u) : IsAncestorOrSelf(R, h))
            => hasPermissionIn(ContextServed(u).permissions, Requests[request])'
                 = hasPermissionIn(loadPermissionContext(u).context.permissions,
                                   Requests[request])']_vars

\* C7: when assignRoleToUser or removeRoleFromUser returns for user u, no cache
\* entry exists for u; when assignPermissionsToRole, removePermissionFromRole or
\* replaceRolePermissions returns for role R, no cache entry exists for any
\* user findUsersByRole(R) returns.
C7_DirectHoldersInvalidated ==
  [][/\ \A u \in UserIds, R \in RoleIds :
          (/\ last'.res = "ok"
           /\ \/ \E unique \in BOOLEAN : assignRoleToUser(u, R, unique)
              \/ removeRoleFromUser(u, R))
          => u \notin DOMAIN permissionCache'
     /\ \A R \in RoleIds :
          RolePermissionCallOn(R)
          => \A u \in findUsersByRole(R) : u \notin DOMAIN permissionCache']_vars

C7_GrantToRoleOfTwoHolders ==
  /\ last = Call("assignPermissionsToRole", "ok")
  /\ findUsersByRole(1) = UserIds
  /\ rolePermission # {}
  /\ DOMAIN permissionCache = {}

\* C8: on the caller's own resource, Require.OwnPermission built with the base
\* permission resource:action allows the request if the user is granted
\* resource:action:own or resource:action:all, and answers Forbidden if the
\* user is granted neither.
C8_BasePermissionOwnOrAll ==
  (gate.guard = "OwnPermission" /\ gate.user = "known" /\ gate.isOwn
     /\ StripScope(gate.permission) = gate.permission)
  => gate.outcome =
       IF \/ hasPermissionIn(gate.permissions, Append(gate.permission, "own"))
          \/ hasPermissionIn(gate.permissions, Append(gate.permission, "all"))
         THEN "allowed"
         ELSE "Forbidden"

\* C9: on a resource that is not the caller's own, Require.OwnPermission allows
\* the request only when hasPermission(user, base:all) is true, and a user whose
\* only grant is base:own is answered Forbidden.
C9_ForeignResourceNeedsAll ==
  (gate.guard = "OwnPermission" /\ ~gate.isOwn)
  => LET base == StripScope(gate.permission)
     IN /\ gate.outcome = "allowed"
             => hasPermissionIn(gate.permissions, Append(base, "all"))
        /\ gate.permissions = {Append(base, "own")} => gate.outcome = "Forbidden"

C9_OwnGrantRefusedOnForeignResource ==
  /\ gate.guard = "OwnPermission"
  /\ gate.user = "known"
  /\ ~gate.isOwn
  /\ gate.permission = <<"user", "delete", "own">>
  /\ gate.permissions = {<<"user", "delete", "own">>}
  /\ gate.outcome = "Forbidden"

\* every pattern segment is "*" or the permission's segment at that position
SegmentsAgree(permission, pattern) ==
  \A i \in 1..Len(pattern) :
    pattern[i] = "*" \/ (i <= Len(permission) /\ pattern[i] = permission[i])

NoWildcard(pattern) == \A i \in 1..Len(pattern) : pattern[i] # "*"

\* C11: matching has no implicit scope equivalence: a held resource:action
\* without scope does not match a requested resource:action:own or
\* resource:action:all, and a pattern without "*" segment matches only the
\* permission with the same segments.
C11_NoImplicitScopeEquivalence ==
  (/\ gate.guard = "Permission"
   /\ gate.user = "known"
   /\ \A held \in gate.permissions : NoWildcard(held)
   /\ gate.outcome = "allowed")
  => gate.permission \in gate.permissions

\* C12: every permission guard (Require.Permission, Any, All, OwnPermission,
\* MePermission and permissionGuard) denies a request whose context has no user
\* or no user id, whatever the resolved context holds, and does so without
\* calling PermissionService.
C12_NoUserDenied ==
  (gate.guard # "none" /\ gate.user \in {"none", "noId"})
  => (gate.outcome = "Forbidden" /\ ~gate.consulted)

C12_UserWithoutIdDenied ==
  /\ gate.guard = "MePermission"
  /\ gate.user = "noId"
  /\ gate.permissions = {<<"*">>}
  /\ gate.outcome = "Forbidden"
  /\ ~gate.consulted

\* C13: a user with no UserRole rows resolves to an empty permission set and an
\* empty role list, so hasPermission answers false for that user on every
\* permission asked.
C13_NoRolesNoPermission ==
  \A u \in CacheUserIds :
    HeldRoles(u) = {}
      => /\ ContextServed(u) = EmptyContext
         /\ \A request \in DOMAIN Requests :
              ~hasPermissionIn(ContextServed(u).permissions, Requests[request])

\* C14: starting from the seeded store, under every sequence of createRole,
\* updateRole, setRoleParent and deleteRole each system role still exists with
\* the parentId and the level it was seeded with.
C14_SystemRolesImmutable ==
  \A r \in SystemRoleIds :
    /\ r \in DOMAIN role
    /\ role[r].parentId = seedRoles[r].parentId
    /\ role[r].level = seedRoles[r].level

\* d lies below r in the hierarchy, at any depth
IsDescendant(d, r) == d # r /\ d \in DOMAIN role /\ IsAncestorOrSelf(r, d)

\* what a setRoleParent(r, d) call with d below r did
CycleAttemptEnds(result) ==
  \A r \in ReparentRoleIds, d \in ReparentRoleIds :
    (IsDescendant(d, r) /\ setRoleParent(r, d))
      => (last'.res = result[r] /\ role' = role)

\* C15 as stated: setRoleParent(r, d) with d a descendant of r at any depth is
\* rejected with the cycle error, and every role's parentId and level are the
\* same after the rejection as before the call.
C15_DescendantParentIsCycleError ==
  [][CycleAttemptEnds([r \in ReparentRoleIds |-> "CycleDetected"])]_vars

\* C15, amended: setRoleParent(r, d) with d a descendant of r at any depth is
\* rejected, with the forbidden error when r is a system role and with the
\* cycle error otherwise, and every role's parentId and level are the same
\* after the rejection as before the call.
C15_DescendantParentRejected ==
  [][CycleAttemptEnds([r \in ReparentRoleIds |->
                         IF r \in DOMAIN role /\ role[r].isSystem
                           THEN "Forbidden" ELSE "CycleDetected"])]_vars

\* a role that is not a system role has a descendant two levels down and a
\* setRoleParent call has just been refused as a cycle
C15_CycleRefusedTwoBelow ==
  /\ last = Call("setRoleParent", "CycleDetected")
  /\ \E r \in DOMAIN role, d \in DOMAIN role :
       /\ ~role[r].isSystem
       /\ NthParent(d, 2) = r

\* C17: association edits are idempotent: assignPermissionsToRole(R, [p]),
\* applied to a role that may already have the row, or given p twice, succeeds
\* and leaves exactly the one row (R, p) for that pair; removeRoleFromUser(u, R)
\* for a user who does not hold R succeeds and leaves the UserRole rows as they
\* were.
C17_IdempotentEdits ==
  [][/\ \A R \in DOMAIN role, p \in PermissionIds :
          \A permissionIds \in {<<p>>, <<p, p>>} :
            assignPermissionsToRole(R, permissionIds)
              => /\ last'.res = "ok"
                 /\ rolePermission' = rolePermission \cup {<<R, p>>}
     /\ \A u \in UserIds, R \in RoleIds :
          (<<u, R>> \notin userRole /\ removeRoleFromUser(u, R))
            => (last'.res = "ok" /\ userRole' = userRole)]_vars

\* an assignment has returned on a role that holds every permission there is:
\* whatever it listed, no pair is stored twice
C17_AssignedOnFullRole ==
  /\ last = Call("assignPermissionsToRole", "ok")
  /\ \E R \in DOMAIN role : \A p \in PermissionIds : <<R, p>> \in rolePermission

\* C19: after seeding and any sequence of createRole, setRoleParent, updateRole
\* and deleteRole, every role without a parent has level 0 and every other role
\* has the level of its parent plus one, the descendants of a re-parented role
\* included.
C19_LevelsFollowParents ==
  \A r \in DOMAIN role :
    IF role[r].parentId = NULL
      THEN role[r].level = 0
      ELSE /\ role[r].parentId \in DOMAIN role
           /\ role[r].level = role[role[r].parentId].level + 1

\* C20: createRole with a parentId that names no existing role fails with the
\* not-found error and creates no role; no role is ever stored with a parentId
\* that names no role.
C20_MissingParentIsNotFound ==
  [][\A name \in SeededRoleIds, parentId \in SeededRoleIds :
       (parentId \notin DOMAIN role /\ name \notin DOMAIN role
          /\ createRole(name, parentId))
         => (last' = Call("createRole", "NotFound") /\ role' = role)]_vars

\* the permission strings of a set of rows
StringsOf(rows) == {PermissionStringOf(rp[2]) : rp \in rows}

\* the rows a replace in progress is putting in place
NewRows(t) == {RowsOf(t.roleId, t.permissionIds)[i] : i \in DOMAIN t.permissionIds}

\* C16: while replaceRolePermissions(R, S) is in progress next to
\* loadPermissionContext calls, the rows of R a resolver can read are the
\* complete old set or the complete new set S, and a context loaded meanwhile
\* for a holder of R reflects one of the two, never a part of either.
C16_ReplaceSeenWhole ==
  [][/\ tx'.step # "none"
          => RowsOfRole(rolePermission', tx'.roleId) \in {tx'.old, NewRows(tx')}
     /\ \A callId \in DOMAIN pending' \ DOMAIN pending :
          (tx.step # "none" /\ pending'[callId].context.roles = {tx.roleId})
            => pending'[callId].context.permissions
                 \in {StringsOf(tx.old), StringsOf(NewRows(tx))}]_vars

\* a resolver has just loaded the context of a holder of R after the deleteMany
\* of a replace that swaps one permission of R for the other
C16_LoadedAfterDeleteMany ==
  /\ tx.step = "deleted"
  /\ tx.old # {}
  /\ NewRows(tx) # {}
  /\ NewRows(tx) # tx.old
  /\ last = Call("getPermissionContext", "loading")
  /\ \E callId \in DOMAIN pending :
       /\ pending[callId].context.roles = {tx.roleId}
       /\ pending[callId].context.permissions = StringsOf(tx.old)

\* C18: loadPermissionContext terminates for every stored hierarchy, one that
\* holds a cycle included: the walk up the parents visits a role at most once
\* and then stops.
C18_ResolverTerminates ==
  \A u \in CacheUserIds : loadPermissionContext(u).returns

\* C21: over every sequence and interleaving of user creations and deletions
\* the hook assigns superAdmin to exactly one user, the first ever created, and
\* user to every other created user, also when the first two users are created
\* concurrently and when the first user was deleted before a later registration.
C21_FirstUserIsSuperAdmin ==
  \A u \in DOMAIN signup.given :
    signup.given[u] = (IF u = signup.created[1] THEN seedSuperAdmin ELSE seedUser)

\* the seeded hierarchy with U holding admin alone and admin holding rows
AdminHeldBy(U, permissionIds) ==
  /\ role[seedSuperAdmin].parentId = NULL
  /\ role[seedAdmin].parentId = seedSuperAdmin
  /\ role[seedUser].parentId = NULL
  /\ HeldRoles(U) = {seedAdmin}
  /\ rolePermission = {<<seedAdmin, p>> : p \in permissionIds}

\* the queries of the trace: with user:read:all granted to admin U is granted
\* user:read:all and refused role:delete; with the grant revoked U is refused
\* user:read:all
TraceQueries ==
  \A U \in UserIds :
    /\ (AdminHeldBy(U, {1}) /\ hasPermission(U, 1)) => last'.res = "true"
    /\ (AdminHeldBy(U, {1}) /\ hasPermission(U, 3)) => last'.res = "false"
    /\ (AdminHeldBy(U, {}) /\ hasPermission(U, 1)) => last'.res = "false"

\* how a call that takes admin's parent away ends
ReparentOfAdminEnds(res) ==
  /\ setRoleParent(seedAdmin, NULL) => last'.res = res
  /\ (role[seedAdmin].parentId # NULL /\ updateRole(seedAdmin, NULL)) => last'.res = res

\* C22 as stated: on the seeded roles, after user:read:all is granted to admin
\* and admin assigned to U, hasPermission(U, user:read:all) is true and
\* hasPermission(U, role:delete) is false; re-parenting admin to no parent then
\* succeeds, and after user:read:all is revoked from admin
\* hasPermission(U, user:read:all) is false.
C22_TraceWithReparent ==
  [][/\ TraceQueries
     /\ ReparentOfAdminEnds("ok")
     /\ setRoleParent(seedAdmin, NULL) => role'[seedAdmin].parentId = NULL]_vars

\* C22, amended: the same queries give the same answers, and re-parenting admin
\* to no parent is refused with the forbidden error, admin being seeded as a
\* system role, and leaves the hierarchy as it was.
C22_TraceReparentRefused ==
  [][/\ TraceQueries
     /\ ReparentOfAdminEnds("Forbidden")
     /\ setRoleParent(seedAdmin, NULL) => role' = role]_vars

\* U holds admin alone, admin holds user:read:all and the query for it has just
\* answered true from the context now cached for U
C22_AdminHolderGranted ==
  \E U \in UserIds :
    /\ AdminHeldBy(U, {1})
    /\ last = Call("hasPermission", "true")
    /\ CacheHit(U)
    /\ permissionCache[U].context.permissions = {<<"user", "read", "all">>}

\* the strings the seed attached to superAdmin and to no other role
SuperAdminOnly ==
  {PermissionStringOf(p) :
     p \in {q \in DOMAIN PermissionTable :
              /\ <<seedSuperAdmin, q>> \in seedRolePermissions
              /\ \A r \in SystemRoleIds \ {seedSuperAdmin} :
                   <<r, q>> \notin seedRolePermissions}}

\* C23: after the seed a user who holds only the admin role cannot assign
\* roles: hasPermission(user, user_role:create:all) is false, and the user
\* resolves no permission that the seed attached to superAdmin alone.
C23_AdminCannotAssignRoles ==
  \A u \in UserIds :
    HeldRoles(u) = {seedAdmin}
      => LET permissions == loadPermissionContext(u).context.permissions
         IN /\ ~hasPermissionIn(permissions, <<"user_role", "create", "all">>)
            /\ permissions \cap SuperAdminOnly = {}

\* C24: two setRoleParent calls that run concurrently, each making its cycle
\* check before either writes (setRoleParent(A, B) and setRoleParent(B, A) on
\* two roots), cannot leave a cycle in the stored parent relation: no role is
\* its own ancestor.
C24_NoCycleFromOverlap ==
  \A r \in DOMAIN role :
    \A n \in 1..Cardinality(DOMAIN role) : NthParent(r, n) # r

\* C25: once deleteRole(R) has returned for a non-system role R, no user who
\* held R is still granted by hasPermission a permission the store no longer
\* resolves for that user, that is, one the user had only through R or
\* through R's ancestors reached via R.
C25_DeletedRoleRevoked ==
  [][(last' = Call("deleteRole", "ok") /\ DOMAIN role' # DOMAIN role) =>
       \A u \in CacheUserIds, request \in DOMAIN Requests :
         (\E R \in DOMAIN role \ DOMAIN role' : <<u, R>> \in userRole) =>
           (hasPermissionIn(ContextServed(u)'.permissions, Requests[request]) =>
              hasPermissionIn(loadPermissionContext(u)'.context.permissions,
                              Requests[request]))]_vars

\* C26: replaceRolePermissions(R, S) is all-or-nothing: when it succeeds the
\* rows of R are exactly the pairs (R, p) for p in S, and when the insert step
\* fails (S lists an id twice or names a permission that does not exist) the
\* rows of R are exactly those before the call.
C26_ReplaceAllOrNothing ==
  [][/\ (tx.step = "committed" /\ last' = Call("replaceRolePermissions", "ok")) =>
          RowsOfRole(rolePermission', tx.roleId)
            = {<<tx.roleId, tx.permissionIds[i]>> : i \in DOMAIN tx.permissionIds}
     /\ (tx.step = "deleted" /\ last' = Call("replaceRolePermissions", "StoreError")) =>
          RowsOfRole(rolePermission', tx.roleId) = tx.old]_vars

\* a replace of a role that has a row failed on a missing permission
C26_FailedOnFullRole ==
  /\ last = Call("replaceRolePermissions", "StoreError")
  /\ tx = NoTx
  /\ \E r \in DOMAIN role : RowsOfRole(rolePermission, r) # {}

\* C27: when a held role's ancestor chain reaches a parentId that names no
\* existing role, loadPermissionContext does not fail: the walk stops there
\* and the resolved set is a subset of what the user would resolve if that
\* parent existed, with only permissions attached to existing roles reached
\* before the missing one.
C27_MissingParentTolerated ==
  [][/\ walk'.step # "failed"
     /\ (walk.step = "walking" /\ walk'.step = "done" /\ walk'.broke) =>
          /\ walk'.context.permissions \subseteq walk'.whole
          /\ walk'.context.permissions
               = {PermissionStringOf(rp[2]) :
                    rp \in {x \in rolePermission' :
                              x[1] \in walk'.roleIds \cap DOMAIN role'}}]_vars

\* a call returned permissions after its walk had stopped at a missing parent
C27_StoppedAtMissingParent ==
  /\ walk.step = "done"
  /\ walk.broke
  /\ walk.context.permissions # {}
  /\ walk.context.permissions # walk.whole

C29_EmptyListDenies ==
  (/\ gate.list = <<>>
   /\ gate.permissions = {}
   /\ \/ gate.guard = "All"
      \/ gate.guard = "permissionGuard" /\ gate.requireAll = "undefined")
    => gate.outcome # "allowed"

\* C30: setRoleParent(id, p) and updateRole(id, {parentId: p}) agree for every
\* p (null, the current parent, an existing role, a missing role, the role
\* itself, a descendant): both reject or both succeed, and a system role is
\* rejected by each exactly when the requested parent differs from its
\* current parent. (On success both store RoleRepository.update(id, {parentId}).)
C30_ParentEditsAgree ==
  \A id \in DOMAIN role, p \in {NULL} \cup SeededRoleIds :
    /\ (setRoleParentRefusal(id, p) = "none") = (updateRoleRefusal(id, p) = "none")
    /\ role[id].isSystem =>
         /\ (setRoleParentRefusal(id, p) # "none") = (p # role[id].parentId)
         /\ (updateRoleRefusal(id, p) # "none") = (p # role[id].parentId)

====
